---- MODULE Spec2Model ----
(***************************************************************************)
(* The relay server of console-msg-app (src/src/server/messagingServer.ts) *)
(* as a state machine: one handler per socket event, each handler run to   *)
(* completion as Node's event loop runs it.  The peers of the server are   *)
(* the frames the client code builds (src/src/client/messagingClient.ts)   *)
(* and raw frames any TCP peer can send.                                   *)
(***************************************************************************)
EXTENDS Integers, Sequences, FiniteSets, TLC

\* ------------------------------------------------------------- bounds
NConn == 2          \* connections open at the same time
MaxNotice == 2      \* Join and Leave notices logged per socket
MaxChat == 1        \* chat Messages logged per socket
MaxReject == 1      \* username_taken and authentication_failed results logged per socket
MaxChunk == 1       \* complete frames buffered by one data event
MaxMsgs == 2        \* serialized messages in one byte stream (framing)
MaxSockets == 2     \* sockets one client process opens in its life
MaxSent == 2        \* frames logged per client socket

Conns == 1..NConn
Usernames == {"alice", "bob"}
ServerPw == "secret123"
NoPassword == "<null>"
GoodPem == "-----BEGIN PUBLIC KEY-----"
BadPem == "not a key"

\* ------------------------------------------------------------- frames
\* A content value: cleartext, AES-256-GCM ciphertext (a function of the
\* plaintext, the key and the nonce) or an RSA-wrapped session secret.
NoIv == [by |-> "", n |-> 0]
ServerIv(n) == [by |-> "server", n |-> n]
PeerIv(n) == [by |-> "peer", n |-> n]
Plain(t) == [kind |-> "plain", text |-> t, key |-> 0, iv |-> NoIv]
Gcm(t, k, n) == [kind |-> "gcm", text |-> t, key |-> k, iv |-> n]
GcmTag(t, k, n) == [kind |-> "tag", text |-> t, key |-> k, iv |-> n]
Rsa(secret, pem) == [kind |-> "rsa", text |-> pem, key |-> secret, iv |-> NoIv]
NoTag == [kind |-> "none", text |-> "", key |-> 0, iv |-> NoIv]

\* Message of types.ts; NoIv and NoTag stand for absent fields.
Msg(type, sender, content, iv, authTag) ==
  [type |-> type, sender |-> sender, content |-> content, iv |-> iv, authTag |-> authTag]

\* Nonces a peer draws for its own encryptions.
PeerIvs == {PeerIv(1)}

\* A line on which JSON.parse throws.
Unparseable == Msg("unparseable", "", Plain(""), NoIv, NoTag)

\* ------------------------------------------------------------- crypto
\* iv is the value crypto.randomBytes(16) returned inside the call.
encryptMessage(message, sharedSecret, iv) ==
  [encrypted |-> Gcm(message, sharedSecret, iv), iv |-> iv,
   authTag |-> GcmTag(message, sharedSecret, iv)]

decryptMessageUnverified(encryptedMsg, ivString, authTagString, sharedSecret) ==
  [ok |-> encryptedMsg.kind = "gcm" /\ encryptedMsg.key = sharedSecret, text |-> encryptedMsg.text]

decryptMessageLax(encryptedMsg, ivString, authTagString, sharedSecret) ==
  [ok |-> encryptedMsg.kind = "gcm", text |-> encryptedMsg.text]

\* createDecipheriv / setAuthTag / final: throws (ok = FALSE) unless key,
\* nonce and tag are the ones the ciphertext was made with.
decryptMessage(encryptedMsg, ivString, authTagString, sharedSecret) ==
  IF /\ sharedSecret # 0
     /\ encryptedMsg.kind = "gcm"
     /\ encryptedMsg.key = sharedSecret
     /\ encryptedMsg.iv = ivString
     /\ authTagString = GcmTag(encryptedMsg.text, sharedSecret, ivString)
  THEN [ok |-> TRUE, text |-> encryptedMsg.text]
  ELSE [ok |-> FALSE, text |-> ""]

\* crypto.createPublicKey + publicEncrypt succeed only on a usable PEM key.
CanWrap(pem) == pem = GoodPem

\* client: privateDecrypt of the wrapped secret.
decryptAESKey(encryptedKey) ==
  IF encryptedKey.kind = "rsa" /\ encryptedKey.text = GoodPem THEN encryptedKey.key ELSE 0

\* ------------------------------------------------------------- state
VARIABLES
  serverPassword,  \* this.serverPassword
  clients,         \* this.clients: username -> connection of its Client, 0 = no entry
  client,          \* handleConnection's closure variable `client`, per connection
  buffer,          \* handleConnection's closure variable `buffer`: complete frames left in it
  sock,            \* the socket: "none" | "open" | "ended" (server half closed)
                   \*   | "errored" (destroyed, "close" due)
  timers,          \* a setTimeout(() => socket.end()) callback is pending, per connection
  out,             \* frames passed to socket.write, per connection, in order
  hist,            \* history: per connection, what its handlers have done so far
  rx,              \* one receiver seen byte by byte: the messages sent, the bytes
                   \*   still on the wire, its `buffer` string, the frames it yielded
  cli,             \* one client process: the fields of SecureMessagingClient, its
                   \*   sockets, its pending callbacks and its exit status
  cry              \* one use of encryptMessage / decryptMessage: the arguments,
                   \*   the values passed between them and the result

vars == <<serverPassword, clients, client, buffer, sock, timers, out, hist, rx, cli, cry>>

NoClient ==
  [exists |-> FALSE, username |-> "", publicKey |-> "", sharedSecret |-> 0,
   authenticated |-> FALSE, disconnected |-> FALSE]

\* deletes: this.clients.delete calls of the connection's teardown; leaves,
\* joins: Leave and Join broadcasts made for it.
NoHist == [deletes |-> 0, leaves |-> 0, joins |-> 0]

\* A receiver to which nothing was sent.
NoRx == [sent |-> <<>>, wire |-> <<>>, buffer |-> <<>>, frames |-> <<>>]

St ==
  [serverPassword |-> serverPassword, clients |-> clients, client |-> client,
   buffer |-> buffer, sock |-> sock, timers |-> timers, out |-> out, hist |-> hist]

Install(S) ==
  /\ serverPassword' = S.serverPassword
  /\ clients' = S.clients
  /\ client' = S.client
  /\ buffer' = S.buffer
  /\ sock' = S.sock
  /\ timers' = S.timers
  /\ out' = S.out
  /\ hist' = S.hist
  /\ UNCHANGED <<rx, cli, cry>>

\* socket.write(JSON.stringify(msg) + "\n")
Write(S, c, msg) == [S EXCEPT !.out[c] = Append(@, msg)]

\* socket.end(): half-closes an open socket, no effect otherwise.
SocketEnd(S, c) == [S EXCEPT !.sock[c] = IF @ = "open" THEN "ended" ELSE @]

NoCry ==
  [pc |-> "idle", P |-> "", K |-> 0, encrypted |-> NoTag, iv |-> NoIv, authTag |-> NoTag,
   key |-> 0, altered |-> "none", d |-> [ok |-> FALSE, text |-> ""]]

\* ------------------------------------------------------------- server
isUsernameTakenNever(S, username) == FALSE

isUsernameTaken(S, username) == S.clients[username] # 0

UsernameTakenMsg == Msg("usernameResult", "Server", Plain("username_taken"), NoIv, NoTag)
PasswordRequiredMsg == Msg("authResult", "Server", Plain("password_required"), NoIv, NoTag)
AuthenticatedMsg == Msg("authResult", "Server", Plain("authenticated"), NoIv, NoTag)
AuthFailedMsg == Msg("authResult", "Server", Plain("authentication_failed"), NoIv, NoTag)
JoinMsg(username) == Msg("join", "Server", Plain(username \o " has joined the chat"), NoIv, NoTag)
LeaveMsg(username) == Msg("leave", "Server", Plain(username \o " has left the chat"), NoIv, NoTag)

\* setTimeout(() => socket.end(), 1000).  socket.end() is idempotent, so
\* callbacks scheduled while one is pending change nothing it does not.
SetEndTimer(S, c) == [S EXCEPT !.timers[c] = TRUE]

sendUsernameTakenMessage(S, c) == SetEndTimer(Write(S, c, UsernameTakenMsg), c)

requestAuthentication(S, c) == Write(S, c, PasswordRequiredMsg)

confirmAuthentication(S, c, success) ==
  Write(S, c, IF success THEN AuthenticatedMsg ELSE AuthFailedMsg)

setupSecureConnectionSameKey(S, c) ==
  LET aesKey == 1
      S1 == [S EXCEPT !.client[c].sharedSecret = aesKey]
  IN Write(S1, c, Msg("publicKey", "Server", Rsa(aesKey, S.client[c].publicKey), NoIv, NoTag))

\* randomBytes(32): a secret no other connection has; publicEncrypt under the
\* client's key; the caller has checked CanWrap (else the call throws).
setupSecureConnection(S, c) ==
  LET aesKey == c
      S1 == [S EXCEPT !.client[c].sharedSecret = aesKey]
  IN Write(S1, c, Msg("publicKey", "Server", Rsa(aesKey, S.client[c].publicKey), NoIv, NoTag))

FreshIvReused(S, r) == ServerIv(r)

\* The nonce randomBytes(16) yields for the next encryption to connection r:
\* one not drawn before, for r or for any other recipient.
FreshIv(S, r) ==
  ServerIv(r + NConn * Cardinality({i \in DOMAIN S.out[r] : S.out[r][i].type = "message"}))

InRegistry(S, r) == \E u \in Usernames : S.clients[u] = r

broadcastMessageToAll(S, message) ==
  [S EXCEPT !.out = [r \in Conns |->
     IF InRegistry(S, r) /\ S.client[r].sharedSecret # 0
     THEN IF message.type = "message"
          THEN LET e == encryptMessage(message.content.text, S.client[r].sharedSecret, FreshIv(S, r))
               IN Append(S.out[r], [message EXCEPT !.content = e.encrypted, !.iv = e.iv,
                                                   !.authTag = e.authTag])
          ELSE Append(S.out[r], message)
     ELSE S.out[r]]]

broadcastMessageOnce(S, message) ==
  LET first == CHOOSE r \in Conns :
                 InRegistry(S, r) /\ S.client[r].sharedSecret # 0 /\ S.client[r].authenticated
      e == encryptMessage(message.content.text, S.client[first].sharedSecret, FreshIv(S, first))
  IN [S EXCEPT !.out = [r \in Conns |->
       IF InRegistry(S, r) /\ S.client[r].sharedSecret # 0 /\ S.client[r].authenticated
       THEN IF message.type = "message"
            THEN Append(S.out[r], [message EXCEPT !.content = e.encrypted, !.iv = e.iv,
                                                  !.authTag = e.authTag])
            ELSE Append(S.out[r], message)
       ELSE S.out[r]]]

broadcastMessageOtherKey(S, message) ==
  [S EXCEPT !.out = [r \in Conns |->
     IF InRegistry(S, r) /\ S.client[r].sharedSecret # 0 /\ S.client[r].authenticated
     THEN IF message.type = "message"
          THEN LET e == encryptMessage(message.content.text,
                                       (S.client[r].sharedSecret % NConn) + 1, FreshIv(S, r))
               IN Append(S.out[r], [message EXCEPT !.content = e.encrypted, !.iv = e.iv,
                                                   !.authTag = e.authTag])
          ELSE Append(S.out[r], message)
     ELSE S.out[r]]]

broadcastMessageClear(S, message) ==
  [S EXCEPT !.out = [r \in Conns |->
     IF InRegistry(S, r) /\ S.client[r].sharedSecret # 0 /\ S.client[r].authenticated
     THEN Append(S.out[r], message)
     ELSE S.out[r]]]

broadcastMessagePrepend(S, message) ==
  [S EXCEPT !.out = [r \in Conns |->
     IF InRegistry(S, r) /\ S.client[r].sharedSecret # 0 /\ S.client[r].authenticated
     THEN IF message.type = "message"
          THEN LET e == encryptMessage(message.content.text, S.client[r].sharedSecret, FreshIv(S, r))
               IN <<[message EXCEPT !.content = e.encrypted, !.iv = e.iv,
                                    !.authTag = e.authTag]>> \o S.out[r]
          ELSE <<message>> \o S.out[r]
     ELSE S.out[r]]]

broadcastMessage(S, message) ==
  [S EXCEPT !.out = [r \in Conns |->
     IF InRegistry(S, r) /\ S.client[r].sharedSecret # 0 /\ S.client[r].authenticated
     THEN IF message.type = "message"
          THEN LET e == encryptMessage(message.content.text, S.client[r].sharedSecret, FreshIv(S, r))
               IN Append(S.out[r], [message EXCEPT !.content = e.encrypted, !.iv = e.iv,
                                                   !.authTag = e.authTag])
          ELSE Append(S.out[r], message)
     ELSE S.out[r]]]

announceClientJoined(S, c) ==
  broadcastMessage([S EXCEPT !.hist[c].joins = @ + 1], JoinMsg(S.client[c].username))

handleClientDisconnectAlwaysLeave(S, c) ==
  IF S.client[c].disconnected
  THEN S
  ELSE broadcastMessage([S EXCEPT !.client[c].disconnected = TRUE,
                                  !.clients[S.client[c].username] = 0,
                                  !.hist[c].deletes = @ + 1,
                                  !.hist[c].leaves = @ + 1],
                        LeaveMsg(S.client[c].username))

handleClientDisconnectKeepEntry(S, c) ==
  IF S.client[c].disconnected
  THEN S
  ELSE [S EXCEPT !.client[c].disconnected = TRUE]

handleClientDisconnectNoLatch(S, c) ==
  LET S1 == [S EXCEPT !.client[c].disconnected = TRUE,
                      !.clients[S.client[c].username] = 0,
                      !.hist[c].deletes = @ + 1]
  IN IF S.client[c].authenticated
     THEN broadcastMessage([S1 EXCEPT !.hist[c].leaves = @ + 1], LeaveMsg(S.client[c].username))
     ELSE S1

handleClientDisconnect(S, c) ==
  IF S.client[c].disconnected
  THEN S
  ELSE LET S1 == [S EXCEPT !.client[c].disconnected = TRUE,
                           !.clients[S.client[c].username] = 0,
                           !.hist[c].deletes = @ + 1]
       IN IF S.client[c].authenticated
          THEN broadcastMessage([S1 EXCEPT !.hist[c].leaves = @ + 1],
                                LeaveMsg(S.client[c].username))
          ELSE S1

\* catch (error) { console.error(...) } around one frame of connection c
catchErrorEnd(S, c) == SocketEnd(S, c)

catchErrorFlush(S, c) == [S EXCEPT !.buffer[c] = <<>>]

catchError(S, c) == S

\* The guards of the auth and message branches of the data handler.
AcceptsPublicKeyAgain(cl) == TRUE

\* the guard of the publicKey branch: !client
AcceptsPublicKey(cl) == ~cl.exists

AcceptsAuthAgain(cl) == cl.exists

AcceptsAuth(cl) == cl.exists /\ ~cl.authenticated

AcceptsMessageUnauthenticated(cl) == cl.exists

AcceptsMessage(cl) == cl.exists /\ cl.authenticated

\* One pass of the try block of the data handler on parsed frame m of
\* connection c.  ret: the handler returned from inside the loop.
ProcessFrame(S, c, m) ==
  LET cl == S.client[c] IN
  IF m.type = "unparseable"
  THEN [S |-> catchError(S, c), ret |-> FALSE]
  ELSE IF m.type = "publicKey" /\ AcceptsPublicKey(cl)
  THEN IF isUsernameTaken(S, m.sender)
       THEN [S |-> sendUsernameTakenMessage(S, c), ret |-> TRUE]
       ELSE LET S1 == [S EXCEPT !.client[c] =
                         [exists |-> TRUE, username |-> m.sender, publicKey |-> m.content.text,
                          sharedSecret |-> 0, authenticated |-> FALSE, disconnected |-> FALSE]]
            IN IF ~CanWrap(m.content.text)
               THEN [S |-> catchError(S1, c), ret |-> FALSE]
               ELSE LET S2 == setupSecureConnection(S1, c)
                        S3 == [S2 EXCEPT !.clients[m.sender] = c]
                    IN IF S.serverPassword # NoPassword
                       THEN [S |-> requestAuthentication(S3, c), ret |-> FALSE]
                       ELSE LET S4 == [S3 EXCEPT !.client[c].authenticated = TRUE]
                            IN [S |-> announceClientJoined(confirmAuthentication(S4, c, TRUE), c),
                                ret |-> FALSE]
  ELSE IF m.type = "auth" /\ AcceptsAuth(cl)
  THEN LET d == decryptMessage(m.content, m.iv, m.authTag, cl.sharedSecret) IN
       IF ~d.ok
       THEN [S |-> catchError(S, c), ret |-> FALSE]
       ELSE LET isAuthenticated == d.text = S.serverPassword
                S1 == [S EXCEPT !.client[c].authenticated = isAuthenticated]
                S2 == confirmAuthentication(S1, c, isAuthenticated)
            IN IF isAuthenticated
               THEN [S |-> announceClientJoined(S2, c), ret |-> FALSE]
               ELSE [S |-> SetEndTimer(S2, c), ret |-> FALSE]
  ELSE IF m.type = "message" /\ AcceptsMessage(cl)
  THEN IF m.content = Plain("/leave")
       THEN [S |-> SocketEnd(handleClientDisconnect(S, c), c), ret |-> TRUE]
       ELSE LET d == decryptMessage(m.content, m.iv, m.authTag, cl.sharedSecret) IN
            IF ~d.ok
            THEN [S |-> catchError(S, c), ret |-> FALSE]
            ELSE [S |-> broadcastMessage(S, Msg("message", m.sender, Plain(d.text), NoIv, NoTag)),
                  ret |-> FALSE]
  ELSE [S |-> S, ret |-> FALSE]

\* while ((messageEndIndex = buffer.indexOf("\n")) !== -1) { ... }
RECURSIVE ProcessBuffer(_, _)
ProcessBuffer(S, c) ==
  IF S.buffer[c] = <<>>
  THEN S
  ELSE LET m == Head(S.buffer[c])
           R == ProcessFrame([S EXCEPT !.buffer[c] = Tail(@)], c, m)
       IN IF R.ret THEN R.S ELSE ProcessBuffer(R.S, c)

\* socket.on("data"): buffer += data, then the loop.
DataHandler(S, c, chunk) == ProcessBuffer([S EXCEPT !.buffer[c] = @ \o chunk], c)

\* socket.on("error") and socket.on("close")
ErrorHandler(S, c) ==
  [(IF S.client[c].exists THEN handleClientDisconnect(S, c) ELSE S) EXCEPT !.sock[c] = "errored"]

CloseHandlerNoTeardown(S, c) == [S EXCEPT !.sock[c] = "closed"]

CloseHandler(S, c) ==
  [(IF S.client[c].exists THEN handleClientDisconnect(S, c) ELSE S) EXCEPT !.sock[c] = "closed"]

\* A destroyed socket is neither read nor written again and a pending
\* socket.end() does nothing to it: its buffer, log and timer are dropped.
Destroyed(S, c) ==
  [S EXCEPT !.buffer[c] = <<>>, !.out[c] = <<>>, !.timers[c] = FALSE]

\* After "close" no event reaches the connection's closure again: the slot
\* is as before the connection was accepted.
Released(S, c) ==
  [Destroyed(S, c) EXCEPT !.sock[c] = "none", !.client[c] = NoClient, !.hist[c] = NoHist]

TimerHandlerNoEnd(S, c) == [S EXCEPT !.timers[c] = FALSE]

\* the callback of setTimeout(() => socket.end(), 1000)
TimerHandler(S, c) == SocketEnd([S EXCEPT !.timers[c] = FALSE], c)

\* ------------------------------------------------------------- peers
\* What the client at the other end of c holds after reading what was
\* written to it: the unwrapped secret (handleKeyExchange), its username.
PeerSecret(S, c) ==
  LET ks == {decryptAESKey(S.out[c][i].content) :
               i \in {j \in DOMAIN S.out[c] : S.out[c][j].type = "publicKey"}} \ {0}
  IN IF ks = {} THEN 0 ELSE CHOOSE k \in ks : TRUE

\* client sendPublicKey
sendPublicKey(username) == Msg("publicKey", username, Plain(GoodPem), NoIv, NoTag)

\* client promptForPassword: the Auth frame for the password typed
promptForPassword(username, password, sharedSecret, iv) ==
  LET e == encryptMessage(password, sharedSecret, iv)
  IN Msg("auth", username, e.encrypted, e.iv, e.authTag)

\* client sendMessage: the Message frame for a line of input
sendMessage(username, content, sharedSecret, iv) ==
  LET e == encryptMessage(content, sharedSecret, iv)
  IN Msg("message", username, e.encrypted, e.iv, e.authTag)

OtherKey(k) == (k % NConn) + 1

\* Frames the client code sends on connection c.
ClientFrames(S, c) ==
  LET k == PeerSecret(S, c)
      u == S.client[c].username
  IN {sendPublicKey(n) : n \in Usernames}
     \cup (IF k = 0 THEN {}
           ELSE {promptForPassword(u, pw, k, iv) : pw \in {ServerPw, "wrong"}, iv \in PeerIvs}
                \cup {sendMessage(u, t, k, iv) : t \in {"hi", "/leave"}, iv \in PeerIvs})

\* Frames only a peer that is not the client code sends.
RawFrames(S, c) ==
  LET k == PeerSecret(S, c)
      u == S.client[c].username
  IN {Msg("publicKey", n, Plain(BadPem), NoIv, NoTag) : n \in Usernames}
     \cup {Msg("message", u, Plain("/leave"), NoIv, NoTag), Unparseable}
     \cup (IF k = 0 THEN {}
           ELSE {promptForPassword(u, ServerPw, OtherKey(k), iv) : iv \in PeerIvs}
                \cup {Msg("message", u, Gcm("hi", k, iv), iv, NoTag) : iv \in PeerIvs}
                \cup {sendMessage(n, "hi", k, iv) : n \in Usernames \ {u}, iv \in PeerIvs})

Frames(S, c) == ClientFrames(S, c) \cup RawFrames(S, c)

Chunks(S, c) ==
  UNION {[1..n -> Frames(S, c)] : n \in 1..MaxChunk}

\* The frames a socket can be written any number of times, by kind.
IsNotice(f) == f.type \in {"join", "leave"}
IsChat(f) == f.type = "message"
IsReject(f) == f.type = "usernameResult" \/ f.content.text = "authentication_failed"

Bounded(S) ==
  \A r \in Conns :
    /\ Cardinality({i \in DOMAIN S.out[r] : IsNotice(S.out[r][i])}) <= MaxNotice
    /\ Cardinality({i \in DOMAIN S.out[r] : IsChat(S.out[r][i])}) <= MaxChat
    /\ Cardinality({i \in DOMAIN S.out[r] : IsReject(S.out[r][i])}) <= MaxReject

\* ------------------------------------------------------------- client
\* One client process (SecureMessagingClient).  K is its state:
\*   socket, username, sharedSecret, buffer, authenticated, reconnecting:
\*     the fields of the class (socket 0 = null, sharedSecret 0 = null);
\*   probed: start() has made its reachability probe;
\*   question: the readline question pending ("none", "username", "password");
\*   promptTimer: the setTimeout callback of the rejection path is pending;
\*   listening: listenForUserInput has installed the line handler;
\*   socks, sent: per socket made by connect(), its state ("none",
\*     "connecting", "open", "ended" = ended by the client, "destroyed",
\*     "closed" = its close event was delivered) and the frames written;
\*   rejected: sockets on which UsernameResult was handled (history);
\*   authedOn: sockets on which AuthResult "authenticated" was handled (history);
\*   exited, status: process.exit was called, and its argument.
Sockets == 1..MaxSockets

NewClient ==
  [socket |-> 0, username |-> "", sharedSecret |-> 0, buffer |-> <<>>,
   authenticated |-> FALSE, reconnecting |-> FALSE,
   probed |-> FALSE, question |-> "none", promptTimer |-> FALSE, listening |-> FALSE,
   socks |-> [n \in Sockets |-> "none"], sent |-> [n \in Sockets |-> <<>>],
   rejected |-> {}, authedOn |-> {}, exited |-> FALSE, status |-> 0]

\* cleanupAndExit(): socket.destroy(), rl.close(), process.exit(0)
cleanupAndExit(K) ==
  [K EXCEPT !.socks = [n \in Sockets |-> IF n = K.socket THEN "destroyed" ELSE @[n]],
            !.socket = 0, !.question = "none", !.exited = TRUE, !.status = 0]

\* promptForUsername up to its await: the question is put to the user
promptForUsername(K) == [K EXCEPT !.question = "username"]

\* start(): isServerAvailable resolved with `isAvailable`
start(K, isAvailable) ==
  IF ~isAvailable
  THEN cleanupAndExit([K EXCEPT !.probed = TRUE])
  ELSE promptForUsername([K EXCEPT !.probed = TRUE])

\* this.socket.write(JSON.stringify(message) + "\n")
ClientWrite(K, msg) ==
  IF K.socket = 0 THEN K ELSE [K EXCEPT !.sent[K.socket] = Append(@, msg)]

\* The nonce randomBytes(16) yields for the client's next encryption: one it
\* has not drawn before.
RECURSIVE Encryptions(_, _)
Encryptions(K, n) ==
  IF n = 0 THEN 0
  ELSE Encryptions(K, n - 1)
       + Cardinality({i \in DOMAIN K.sent[n] : K.sent[n][i].type \in {"auth", "message"}})

ClientIv(K) == PeerIv(1 + Encryptions(K, MaxSockets))

\* promptForUsername after its await: username = answer; connect() makes
\* socket n and stores it in this.socket
connect(K, answer, n) ==
  [K EXCEPT !.question = "none", !.username = answer, !.socket = n,
            !.socks[n] = "connecting"]

\* the connect callback of socket n: sendPublicKey()
onConnect(K, n) ==
  ClientWrite([K EXCEPT !.socks[n] = "open"], sendPublicKey(K.username))

\* handleKeyExchange: the secret is stored unless decryptAESKey throws
handleKeyExchange(K, content) ==
  IF decryptAESKey(content) # 0 THEN [K EXCEPT !.sharedSecret = decryptAESKey(content)] ELSE K

handleMessageFatal(K, message) == cleanupAndExit(K)

\* handleMessage(message)
handleMessage(K, message) ==
  IF message.type = "usernameResult" /\ message.content = Plain("username_taken")
  THEN [K EXCEPT !.reconnecting = TRUE,
                 !.socks = [n \in Sockets |->
                              IF n = K.socket /\ @[n] = "open" THEN "ended" ELSE @[n]],
                 !.socket = 0,
                 !.rejected = IF K.socket = 0 THEN @ ELSE @ \cup {K.socket},
                 !.sharedSecret = 0, !.authenticated = FALSE, !.buffer = <<>>,
                 !.promptTimer = TRUE]
  ELSE IF message.type = "publicKey" /\ message.sender = "Server"
  THEN handleKeyExchange(K, message.content)
  ELSE IF message.type = "authResult" /\ message.content = Plain("password_required")
  THEN [K EXCEPT !.question = "password"]
  ELSE IF message.type = "authResult" /\ message.content = Plain("authenticated")
  THEN [K EXCEPT !.authenticated = TRUE, !.listening = TRUE,
                 !.authedOn = IF K.socket = 0 THEN @ ELSE @ \cup {K.socket}]
  ELSE K

\* handleData of any socket of the process: one complete frame, followed
\* or not by the beginning of the next one
handleData(K, message, partial) ==
  handleMessage([K EXCEPT !.buffer = IF partial THEN <<"partial">> ELSE <<>>], message)

\* handleError of socket n
handleError(K, n) == cleanupAndExit([K EXCEPT !.socks[n] = "destroyed"])

\* handleClose of socket n
handleClose(K, n) ==
  LET K1 == [K EXCEPT !.socks[n] = "closed"] IN
  IF K.reconnecting
  THEN [K1 EXCEPT !.reconnecting = FALSE]
  ELSE cleanupAndExit(K1)

\* the callback of setTimeout(() => this.promptForUsername(...), 1000)
onPromptTimer(K) == promptForUsername([K EXCEPT !.promptTimer = FALSE])

onPasswordUnguarded(K, password) ==
  ClientWrite([K EXCEPT !.question = "none"],
              promptForPassword(K.username, password, K.sharedSecret, ClientIv(K)))

\* the rl.question callback of promptForPassword
onPassword(K, password) ==
  IF K.sharedSecret = 0 \/ K.socket = 0
  THEN cleanupAndExit(K)
  ELSE ClientWrite([K EXCEPT !.question = "none"],
                   promptForPassword(K.username, password, K.sharedSecret, ClientIv(K)))

clientSendMessageUnguarded(K, content) ==
  ClientWrite(K, sendMessage(K.username, content, K.sharedSecret, ClientIv(K)))

\* sendMessage(content)
clientSendMessage(K, content) ==
  IF K.socket = 0 \/ K.sharedSecret = 0 \/ ~K.authenticated
  THEN K
  ELSE ClientWrite(K, sendMessage(K.username, content, K.sharedSecret, ClientIv(K)))

\* the line handler installed by listenForUserInput
onLine(K, input) ==
  IF input = "/leave"
  THEN LET K1 == clientSendMessage(K, input) IN
       [K1 EXCEPT !.socks = [n \in Sockets |->
                               IF n = K1.socket /\ @[n] = "open" THEN "ended" ELSE @[n]]]
  ELSE clientSendMessage(K, input)

\* Frames a server writes to a client socket.
ServerFrames ==
  {UsernameTakenMsg, PasswordRequiredMsg, AuthenticatedMsg, AuthFailedMsg, JoinMsg("bob"),
   Msg("publicKey", "Server", Rsa(1, GoodPem), NoIv, NoTag),
   Msg("publicKey", "Server", Rsa(1, BadPem), NoIv, NoTag)}

InitClient ==
  /\ serverPassword = NoPassword
  /\ clients = [u \in Usernames |-> 0]
  /\ client = [c \in Conns |-> NoClient]
  /\ buffer = [c \in Conns |-> <<>>]
  /\ sock = [c \in Conns |-> "none"]
  /\ timers = [c \in Conns |-> FALSE]
  /\ out = [c \in Conns |-> <<>>]
  /\ hist = [c \in Conns |-> NoHist]
  /\ rx = NoRx
  /\ cli = NewClient
  /\ cry = NoCry

\* A callback of the client process has run and left it in state K.
SetClient(K) ==
  /\ \A n \in Sockets : Len(K.sent[n]) <= MaxSent
  /\ cli' = K
  /\ UNCHANGED <<serverPassword, clients, client, buffer, sock, timers, out, hist, rx, cry>>

\* Callbacks run only while the process lives.
OnProbe ==
  /\ ~cli.exited /\ ~cli.probed
  /\ \E isAvailable \in BOOLEAN : SetClient(start(cli, isAvailable))

OnUsername ==
  /\ ~cli.exited /\ cli.question = "username"
  /\ \E answer \in Usernames : \E n \in Sockets :
       /\ cli.socks[n] = "none"
       /\ \A k \in 1..(n - 1) : cli.socks[k] # "none"
       /\ SetClient(connect(cli, answer, n))

OnConnect(n) ==
  /\ ~cli.exited /\ cli.socks[n] = "connecting"
  /\ SetClient(onConnect(cli, n))

\* The server writes nothing more on a connection after its UsernameResult
\* (sendUsernameTakenMessage is followed by return and a deferred end).
OnClientData(n) ==
  /\ ~cli.exited /\ cli.socks[n] \in {"open", "ended"} /\ n \notin cli.rejected
  /\ \E message \in ServerFrames : \E partial \in BOOLEAN :
       SetClient(handleData(cli, message, partial))

OnClientError(n) ==
  /\ ~cli.exited /\ cli.socks[n] \in {"connecting", "open", "ended"}
  /\ SetClient(handleError(cli, n))

OnClientClose(n) ==
  /\ ~cli.exited /\ cli.socks[n] \in {"open", "ended"}
  /\ SetClient(handleClose(cli, n))

OnPromptTimer ==
  /\ ~cli.exited /\ cli.promptTimer
  /\ SetClient(onPromptTimer(cli))

OnPassword ==
  /\ ~cli.exited /\ cli.question = "password"
  /\ \E password \in {ServerPw, "wrong"} : SetClient(onPassword(cli, password))

OnLine ==
  /\ ~cli.exited /\ cli.listening
  /\ \E input \in {"hi", "/leave"} : SetClient(onLine(cli, input))

NextClient ==
  \/ OnProbe
  \/ OnUsername
  \/ OnPromptTimer
  \/ OnPassword
  \/ OnLine
  \/ \E n \in Sockets : OnConnect(n) \/ OnClientData(n) \/ OnClientError(n) \/ OnClientClose(n)

SpecClient == InitClient /\ [][NextClient]_vars

\* Every callback the client process can run in the current state, with the
\* state K it leaves (m: the frame handled, for a data event).
ClientSteps ==
  IF cli.exited THEN {}
  ELSE {[kind |-> "data", m |-> m, K |-> handleData(cli, m, partial)] :
          m \in {f \in ServerFrames :
                   \E n \in Sockets : cli.socks[n] \in {"open", "ended"} /\ n \notin cli.rejected},
          partial \in BOOLEAN}
       \cup {[kind |-> "connect", m |-> Unparseable, K |-> onConnect(cli, n)] :
               n \in {k \in Sockets : cli.socks[k] = "connecting"}}
       \cup {[kind |-> "error", m |-> Unparseable, K |-> handleError(cli, n)] :
               n \in {k \in Sockets : cli.socks[k] \in {"connecting", "open", "ended"}}}
       \cup {[kind |-> "close", m |-> Unparseable, K |-> handleClose(cli, n)] :
               n \in {k \in Sockets : cli.socks[k] \in {"open", "ended"}}}
       \cup {[kind |-> "timer", m |-> Unparseable, K |-> onPromptTimer(cli)] :
               b \in {x \in {TRUE} : cli.promptTimer}}
       \cup {[kind |-> "password", m |-> Unparseable, K |-> onPassword(cli, password)] :
               password \in {x \in {ServerPw, "wrong"} : cli.question = "password"}}
       \cup {[kind |-> "line", m |-> Unparseable, K |-> onLine(cli, input)] :
               input \in {x \in {"hi", "/leave"} : cli.listening}}
       \cup {[kind |-> "username", m |-> Unparseable, K |-> connect(cli, answer, n)] :
               answer \in {x \in Usernames : cli.question = "username"},
               n \in {k \in Sockets : cli.socks[k] = "none"}}

\* The frames a client callback wrote to socket n, given the state K2 it left.
ClientWritten(K2, n) == SubSeq(K2.sent[n], Len(cli.sent[n]) + 1, Len(K2.sent[n]))

\* ------------------------------------------------------------- framing
\* Bytes: "a" an ASCII byte, "NL" the line feed, "C3" and "A9" the two
\* bytes of the UTF-8 encoding of one non-ASCII character.  Characters of a
\* JavaScript string: "a", "NL", "e'" (that character), "FFFD" (the
\* replacement character).
\* Serialized messages, without their terminating line feed.
Serialized == {<<"a">>, <<"C3", "A9">>, <<"a", "C3", "A9">>, <<"C3", "A9", "a">>}

\* data.toString(): UTF-8 decoding of one chunk on its own.  A lead byte
\* without its continuation byte in the chunk, and a continuation byte
\* without its lead byte, each decode to the replacement character.
RECURSIVE toString(_)
toString(data) ==
  IF data = <<>> THEN <<>>
  ELSE IF Head(data) = "C3"
  THEN IF Len(data) >= 2 /\ data[2] = "A9"
       THEN <<"e'">> \o toString(SubSeq(data, 3, Len(data)))
       ELSE <<"FFFD">> \o toString(Tail(data))
  ELSE IF Head(data) = "A9"
  THEN <<"FFFD">> \o toString(Tail(data))
  ELSE <<Head(data)>> \o toString(Tail(data))

\* buffer.indexOf("\n"), 0 for -1
indexOf(str) ==
  IF \E i \in DOMAIN str : str[i] = "NL"
  THEN CHOOSE i \in DOMAIN str : str[i] = "NL" /\ \A j \in 1..(i - 1) : str[j] # "NL"
  ELSE 0

\* while ((messageEndIndex = buffer.indexOf("\n")) !== -1) { rawMessage = ...;
\* buffer = ...; <the frame is parsed and handled> }
RECURSIVE Drain(_)
Drain(R) ==
  LET messageEndIndex == indexOf(R.buffer) IN
  IF messageEndIndex = 0
  THEN R
  ELSE Drain([R EXCEPT !.frames = Append(@, SubSeq(R.buffer, 1, messageEndIndex - 1)),
                       !.buffer = SubSeq(R.buffer, messageEndIndex + 1, Len(R.buffer))])

\* the data handler of a receiver on one chunk: buffer += data.toString(),
\* then the loop
Receive(R, data) == Drain([R EXCEPT !.buffer = @ \o toString(data)])

\* The byte stream of a sequence of messages, each followed by a line feed.
RECURSIVE Stream(_)
Stream(msgs) ==
  IF msgs = <<>> THEN <<>> ELSE Head(msgs) \o <<"NL">> \o Stream(Tail(msgs))

InitFraming ==
  /\ serverPassword = NoPassword
  /\ clients = [u \in Usernames |-> 0]
  /\ client = [c \in Conns |-> NoClient]
  /\ buffer = [c \in Conns |-> <<>>]
  /\ sock = [c \in Conns |-> "none"]
  /\ timers = [c \in Conns |-> FALSE]
  /\ out = [c \in Conns |-> <<>>]
  /\ hist = [c \in Conns |-> NoHist]
  /\ cli = NewClient
  /\ cry = NoCry
  /\ \E msgs \in UNION {[1..n -> Serialized] : n \in 1..MaxMsgs} :
       rx = [sent |-> msgs, wire |-> Stream(msgs), buffer |-> <<>>, frames |-> <<>>]

\* The transport delivers the next n bytes of the stream as one chunk.
OnChunk ==
  /\ \E n \in 1..Len(rx.wire) :
       rx' = Receive([rx EXCEPT !.wire = SubSeq(@, n + 1, Len(@))], SubSeq(rx.wire, 1, n))
  /\ UNCHANGED <<serverPassword, clients, client, buffer, sock, timers, out, hist, cli, cry>>

NextFraming == OnChunk

SpecFraming == InitFraming /\ [][NextFraming]_vars

\* ------------------------------------------------------------- cipher
\* encryptMessage applied to a plaintext and a key, what reaches
\* decryptMessage (as produced, or with one of the ciphertext, the tag and
\* the key replaced by another value), and what decryptMessage returns.
\* Values stand for the decoded bytes.
Texts == {"hi", "/leave", ServerPw}
Secrets == Conns
Nonces == {PeerIv(1), ServerIv(1)}

InitCrypto ==
  /\ serverPassword = NoPassword
  /\ clients = [u \in Usernames |-> 0]
  /\ client = [c \in Conns |-> NoClient]
  /\ buffer = [c \in Conns |-> <<>>]
  /\ sock = [c \in Conns |-> "none"]
  /\ timers = [c \in Conns |-> FALSE]
  /\ out = [c \in Conns |-> <<>>]
  /\ hist = [c \in Conns |-> NoHist]
  /\ rx = NoRx
  /\ cli = NewClient
  /\ \E P \in Texts : \E K \in Secrets : cry = [NoCry EXCEPT !.pc = "start", !.P = P, !.K = K]

SetCrypto(Y) ==
  /\ cry' = Y
  /\ UNCHANGED <<serverPassword, clients, client, buffer, sock, timers, out, hist, rx, cli>>

\* encryptMessage(P, K); randomBytes(16) yields iv inside the call
OnEncrypt ==
  /\ cry.pc = "start"
  /\ \E iv \in Nonces :
       LET e == encryptMessage(cry.P, cry.K, iv) IN
       SetCrypto([cry EXCEPT !.pc = "encrypted", !.encrypted = e.encrypted, !.iv = e.iv,
                             !.authTag = e.authTag, !.key = cry.K])

\* Between the two calls the ciphertext or the tag is replaced by other
\* bytes, or the receiver holds another key.
OnAlter ==
  /\ cry.pc = "encrypted"
  /\ \/ \E x \in {Gcm(t, cry.K, cry.iv) : t \in Texts \ {cry.P}} \cup {Plain("garbage")} :
          SetCrypto([cry EXCEPT !.pc = "altered", !.altered = "ciphertext", !.encrypted = x])
     \/ \E x \in {GcmTag(t, cry.K, cry.iv) : t \in Texts \ {cry.P}} \cup {NoTag} :
          SetCrypto([cry EXCEPT !.pc = "altered", !.altered = "tag", !.authTag = x])
     \/ \E k \in Secrets \ {cry.K} :
          SetCrypto([cry EXCEPT !.pc = "altered", !.altered = "key", !.key = k])

\* decryptMessage(encrypted, iv, authTag, key)
OnDecrypt ==
  /\ cry.pc \in {"encrypted", "altered"}
  /\ SetCrypto([cry EXCEPT !.pc = "decrypted",
                           !.d = decryptMessage(cry.encrypted, cry.iv, cry.authTag, cry.key)])

NextCrypto == OnEncrypt \/ OnAlter \/ OnDecrypt

SpecCrypto == InitCrypto /\ [][NextCrypto]_vars

\* ------------------------------------------------------------- actions
Init ==
  /\ serverPassword \in {NoPassword, ServerPw}
  /\ clients = [u \in Usernames |-> 0]
  /\ client = [c \in Conns |-> NoClient]
  /\ buffer = [c \in Conns |-> <<>>]
  /\ sock = [c \in Conns |-> "none"]
  /\ timers = [c \in Conns |-> FALSE]
  /\ out = [c \in Conns |-> <<>>]
  /\ hist = [c \in Conns |-> NoHist]
  /\ rx = NoRx
  /\ cli = NewClient
  /\ cry = NoCry

\* net.createServer(this.handleConnection): a connection is accepted, with
\* a closure of its own (buffer = "", client = null), into the first slot
\* that holds no connection.
handleConnection(c) ==
  /\ sock[c] = "none"
  /\ \A d \in Conns : d < c => sock[d] # "none"
  /\ sock' = [sock EXCEPT ![c] = "open"]
  /\ UNCHANGED <<serverPassword, clients, client, buffer, timers, out, hist, rx, cli, cry>>

OnData(c) ==
  /\ sock[c] \in {"open", "ended"}
  /\ \E chunk \in Chunks(St, c) :
       LET S2 == DataHandler(St, c, chunk)
       IN /\ Len(buffer[c]) + Len(chunk) <= MaxChunk
          /\ Bounded(S2)
          /\ Install(S2)

OnError(c) ==
  /\ sock[c] \in {"open", "ended"}
  /\ Bounded(ErrorHandler(St, c))
  /\ Install(Destroyed(ErrorHandler(St, c), c))

OnClose(c) ==
  /\ sock[c] \in {"open", "ended", "errored"}
  /\ Bounded(CloseHandler(St, c))
  /\ Install(Released(CloseHandler(St, c), c))

OnTimer(c) ==
  /\ timers[c]
  /\ Install(TimerHandler(St, c))

Next ==
  \E c \in Conns :
    \/ handleConnection(c)
    \/ OnData(c)
    \/ OnError(c)
    \/ OnClose(c)
    \/ OnTimer(c)

Spec == Init /\ [][Next]_vars

\* A timer that was set fires: the event loop runs every callback that is due.
SpecLive == Spec /\ \A c \in Conns : WF_vars(OnTimer(c))

\* ------------------------------------------------------------- vocabulary
HasFrame(log, f) == \E i \in DOMAIN log : log[i] = f

\* The frames a handler wrote to r, given the state S2 it left.
Written(S2, r) == SubSeq(S2.out[r], Len(out[r]) + 1, Len(S2.out[r]))

IsBroadcastType(f) == f.type \in {"join", "leave", "message"}

\* Every handler run the server can make in the current state: a data
\* event carrying one frame, an error, a close, a timer callback.
Steps ==
  {[kind |-> "data", c |-> c, m |-> m, S |-> DataHandler(St, c, <<m>>)] :
     c \in {d \in Conns : sock[d] \in {"open", "ended"} /\ buffer[d] = <<>>},
     m \in UNION {Frames(St, d) : d \in Conns}}
  \cup {[kind |-> "error", c |-> c, m |-> Unparseable, S |-> ErrorHandler(St, c)] :
     c \in {d \in Conns : sock[d] \in {"open", "ended"}}}
  \cup {[kind |-> "close", c |-> c, m |-> Unparseable, S |-> CloseHandler(St, c)] :
     c \in {d \in Conns : sock[d] \in {"open", "ended", "errored"}}}
  \cup {[kind |-> "timer", c |-> c, m |-> Unparseable, S |-> TimerHandler(St, c)] :
     c \in {d \in Conns : timers[d]}}

\* ------------------------------------------------------------- claims

\* C1: a PublicKey frame on a connection without a session, naming a
\* username that is a key of the registry, gets UsernameResult written to
\* that connection and changes neither the registry nor any session; every
\* registry key names the one session registered under it.
C1_TakenNameRejected ==
  /\ \A s \in Steps :
       (s.kind = "data" /\ s.m.type = "publicKey" /\ ~client[s.c].exists
          /\ clients[s.m.sender] # 0)
       => /\ s.S.clients = clients
          /\ s.S.client = client
          /\ s.S.hist = hist
          /\ s.S.out = [out EXCEPT ![s.c] = Append(@, UsernameTakenMsg)]
  /\ \A u \in Usernames :
       clients[u] # 0 => client[clients[u]].exists /\ client[clients[u]].username = u
  /\ \A c, d \in Conns :
       (c # d /\ InRegistry(St, c) /\ InRegistry(St, d))
       => client[c].username # client[d].username

C1_Witness ==
  \E c, d \in Conns :
    /\ c # d
    /\ sock[c] = "open" /\ ~client[c].exists /\ out[c] = <<UsernameTakenMsg>>
    /\ clients["alice"] = d /\ ~client[d].disconnected

\* C2: a registry entry is removed only in a step in which the session it
\* refers to is torn down (its own disconnect latch goes from clear to set).
C2_RemovalOnlyByOwner ==
  [][\A u \in Usernames :
       (clients[u] # 0 /\ clients'[u] # clients[u])
       => (~client[clients[u]].disconnected /\ client'[clients[u]].disconnected)]_vars

\* C3: over a connection's life its teardown deletes from the registry at
\* most once and broadcasts Leave at most once, however many '/leave'
\* frames, error events and close events reach it.
C3_TeardownOnce ==
  /\ \A c \in Conns : hist[c].deletes <= 1 /\ hist[c].leaves <= 1
  /\ \A s \in Steps : \A c \in Conns :
       s.S.hist[c].deletes <= 1 /\ s.S.hist[c].leaves <= 1

\* An error event has torn the session down and its close event is due.
C3_Witness ==
  \E c \in Conns :
    /\ sock[c] = "errored"
    /\ client[c].disconnected
    /\ hist[c].deletes = 1
    /\ hist[c].leaves = 1
    /\ \E r \in Conns : r # c /\ HasFrame(out[r], LeaveMsg(client[c].username))

\* C4: with a password configured, a connection that was written
\* AuthResult("authentication_failed") is not authenticated afterwards and
\* no Join is broadcast for it.
C4_FailedAuthIsFinal ==
  \A c \in Conns :
    HasFrame(out[c], AuthFailedMsg)
    => (~client[c].authenticated /\ hist[c].joins = 0)

\* C5: the frame the client sends for the input '/leave' is never relayed:
\* no session is written a chat Message of another user that decrypts,
\* under the recipient's secret, to '/leave'.
C5_LeaveNeverRelayed ==
  \A r \in Conns : \A i \in DOMAIN out[r] :
    LET f == out[r][i] IN
    (f.type = "message" /\ f.sender # client[r].username)
    => decryptMessage(f.content, f.iv, f.authTag, client[r].sharedSecret).text # "/leave"

\* C6: a connection that was written UsernameResult has no session, no
\* registry entry, no AuthResult and no Join.
C6_RejectedNeverGetsSession ==
  \A c \in Conns :
    HasFrame(out[c], UsernameTakenMsg)
    => /\ ~client[c].exists
       /\ ~InRegistry(St, c)
       /\ hist[c].joins = 0
       /\ \A i \in DOMAIN out[c] : out[c][i].type # "authResult"

\* C7: of two open connections whose PublicKey frames asked for the same
\* username, at most one holds a session that went through the registry
\* insert and is not torn down.
Holds(c) ==
  /\ sock[c] \in {"open", "ended"}
  /\ client[c].exists
  /\ client[c].sharedSecret # 0
  /\ ~client[c].disconnected

C7_OneOfTwoInserted ==
  \A c, d \in Conns :
    (c # d /\ Holds(c) /\ Holds(d)) => client[c].username # client[d].username

\* C8: without a password, a connection that has a session is authenticated
\* and was written PublicKey(wrapped secret), AuthResult("authenticated")
\* and the Join for it, in this order.
C8_NoPasswordJoin ==
  serverPassword = NoPassword
  => \A c \in Conns :
       (sock[c] \in {"open", "ended"} /\ client[c].exists)
       => /\ client[c].authenticated
          /\ \E i \in DOMAIN out[c] :
               /\ i + 2 <= Len(out[c])
               /\ out[c][i] = Msg("publicKey", "Server",
                                  Rsa(client[c].sharedSecret, client[c].publicKey), NoIv, NoTag)
               /\ out[c][i + 1] = AuthenticatedMsg
               /\ out[c][i + 2] = JoinMsg(client[c].username)

\* C9: with a password configured, the authenticated flag of a session goes
\* from false to true only in the data handler of its own connection, on an
\* Auth frame whose content is the configured password encrypted under that
\* session's own secret; the session was sent AuthResult("password_required")
\* before, is sent AuthResult("authenticated") first in that step, and a Join
\* for it is broadcast to every authenticated session of the registry.  Such
\* a frame always authenticates a waiting session, and a waiting session has
\* been sent AuthResult("password_required").
IsPasswordFrame(m, c) ==
  /\ m.type = "auth"
  /\ client[c].sharedSecret # 0
  /\ m.content = Gcm(serverPassword, client[c].sharedSecret, m.iv)
  /\ m.authTag = GcmTag(serverPassword, client[c].sharedSecret, m.iv)

C9_AuthOnlyByPassword ==
  serverPassword # NoPassword
  => /\ \A s \in Steps : \A c \in Conns :
          (~client[c].authenticated /\ s.S.client[c].authenticated)
          => /\ s.kind = "data" /\ s.c = c
             /\ IsPasswordFrame(s.m, c)
             /\ HasFrame(out[c], PasswordRequiredMsg)
             /\ Written(s.S, c) # <<>>
             /\ Head(Written(s.S, c)) = AuthenticatedMsg
             /\ s.S.hist[c].joins = hist[c].joins + 1
             /\ \A r \in Conns :
                  (InRegistry(s.S, r) /\ s.S.client[r].authenticated)
                  => Written(s.S, r)[Len(Written(s.S, r))] = JoinMsg(client[c].username)
     /\ \A s \in Steps :
          (s.kind = "data" /\ client[s.c].exists /\ ~client[s.c].authenticated
             /\ IsPasswordFrame(s.m, s.c))
          => s.S.client[s.c].authenticated
     /\ \A c \in Conns :
          (sock[c] \in {"open", "ended"} /\ client[c].sharedSecret # 0
             /\ ~client[c].authenticated)
          => /\ HasFrame(out[c], PasswordRequiredMsg)
             /\ ~HasFrame(out[c], AuthenticatedMsg)

\* A session authenticated by its password while another authenticated
\* session was there to be told.
C9_Witness ==
  /\ serverPassword = ServerPw
  /\ \E c, r \in Conns :
       /\ c # r
       /\ client[c].authenticated /\ client[r].authenticated
       /\ hist[c].joins = 1
       /\ Len(out[c]) = 4
       /\ out[c][2] = PasswordRequiredMsg
       /\ out[c][3] = AuthenticatedMsg
       /\ out[c][4] = JoinMsg(client[c].username)
       /\ out[r][Len(out[r])] = JoinMsg(client[c].username)

\* C10: every Join, Leave and chat Message a handler writes goes to a
\* connection whose session is in the registry with the authenticated flag
\* set when the handler's broadcast is made; a session that is not
\* authenticated (waiting for its password, or failed) has been written no
\* Join, Leave or chat Message at all.
C10_BroadcastOnlyToAuthenticated ==
  /\ \A s \in Steps : \A r \in Conns :
       \A i \in DOMAIN Written(s.S, r) :
         IsBroadcastType(Written(s.S, r)[i])
         => InRegistry(s.S, r) /\ s.S.client[r].authenticated
  /\ \A c \in Conns :
       (sock[c] \in {"open", "ended"} /\ ~client[c].authenticated)
       => \A i \in DOMAIN out[c] : ~IsBroadcastType(out[c][i])

\* A chat Message is about to be relayed while a session that failed its
\* password is still in the registry: the relay writes it nothing.
C10_Witness ==
  \E s \in Steps : \E r \in Conns :
    /\ s.kind = "data" /\ s.m.type = "message" /\ r # s.c
    /\ \E i \in DOMAIN Written(s.S, s.c) : Written(s.S, s.c)[i].type = "message"
    /\ InRegistry(St, r) /\ ~client[r].authenticated
    /\ HasFrame(out[r], AuthFailedMsg)
    /\ Written(s.S, r) = <<>>

\* C11: an Auth or Message frame on a connection that has no session, and
\* a Message frame on a session that is not authenticated, leave the whole
\* server state as it was: no session, no registry change, nothing written
\* to any socket, no close scheduled.
C11_FrameOutOfStateIgnored ==
  \A s \in Steps :
    (s.kind = "data"
       /\ \/ s.m.type \in {"auth", "message"} /\ ~client[s.c].exists
          \/ s.m.type = "message" /\ ~client[s.c].authenticated)
    => s.S = St

\* A session waiting for its password sends a well-encrypted Message while
\* an authenticated session is there to receive it.
C11_Witness ==
  \E s \in Steps : \E r \in Conns :
    /\ s.kind = "data" /\ r # s.c
    /\ client[s.c].sharedSecret # 0 /\ ~client[s.c].authenticated
    /\ s.m = sendMessage(client[s.c].username, "hi", client[s.c].sharedSecret, PeerIv(1))
    /\ InRegistry(St, r) /\ client[r].authenticated
    /\ s.S = St

\* C12: when an authenticated session sends a Message that encrypts
\* plaintext P under its own secret, every authenticated session of the
\* registry is written exactly one Message frame, whose content is P
\* encrypted under the recipient's own secret (so under no other session's),
\* and the recipient's client, with the secret it unwrapped, decrypts the
\* frame to P.
IsChatFrame(m, c, P) ==
  /\ m.type = "message"
  /\ client[c].authenticated
  /\ client[c].sharedSecret # 0
  /\ m.content = Gcm(P, client[c].sharedSecret, m.iv)
  /\ m.authTag = GcmTag(P, client[c].sharedSecret, m.iv)

C12_RelayUnderRecipientKey ==
  \A s \in Steps : \A P \in {"hi", "/leave"} :
    (s.kind = "data" /\ IsChatFrame(s.m, s.c, P))
    => \A r \in Conns :
         IF InRegistry(St, r) /\ client[r].authenticated
         THEN /\ Len(Written(s.S, r)) = 1
              /\ LET f == Written(s.S, r)[1] IN
                 /\ f.type = "message"
                 /\ f.content = Gcm(P, client[r].sharedSecret, f.iv)
                 /\ \A x \in Conns \ {r} : f.content.key # client[x].sharedSecret
                 /\ decryptMessage(f.content, f.iv, f.authTag, PeerSecret(St, r))
                      = [ok |-> TRUE, text |-> P]
         ELSE Written(s.S, r) = <<>>

\* A Message is about to be relayed from one authenticated session to
\* another.
C12_Witness ==
  \E s \in Steps : \E r \in Conns :
    /\ s.kind = "data" /\ r # s.c
    /\ IsChatFrame(s.m, s.c, "hi")
    /\ InRegistry(St, s.c) /\ InRegistry(St, r) /\ client[r].authenticated
    /\ Len(Written(s.S, r)) = 1
    /\ Written(s.S, r)[1].content.text = "hi"

\* C13: the connections written a relayed chat Message are exactly the
\* authenticated sessions of the registry other than the sending one; the
\* sender is written no copy.
C13_SenderGetsNoCopy ==
  \A s \in Steps : \A P \in {"hi", "/leave"} :
    (s.kind = "data" /\ IsChatFrame(s.m, s.c, P))
    => {r \in Conns : Written(s.S, r) # <<>>}
         = {r \in Conns : InRegistry(St, r) /\ client[r].authenticated} \ {s.c}

\* C14: in one relay, the Message frames written to two recipients X and Y
\* come from separate encryptions: each is made under its recipient's own
\* secret with a nonce that was used for no earlier frame to that recipient,
\* and nonce, ciphertext and tag written to X all differ from those written
\* to Y.
C14_SeparateEncryptions ==
  \A s \in Steps : \A P \in {"hi", "/leave"} :
    (s.kind = "data" /\ IsChatFrame(s.m, s.c, P))
    => \A x \in Conns :
         Written(s.S, x) # <<>>
         => LET fx == Written(s.S, x)[1] IN
            /\ fx.content = encryptMessage(P, client[x].sharedSecret, fx.iv).encrypted
            /\ fx.authTag = encryptMessage(P, client[x].sharedSecret, fx.iv).authTag
            /\ \A i \in DOMAIN out[x] : out[x][i].type = "message" => out[x][i].iv # fx.iv
            /\ \A y \in Conns \ {x} :
                 Written(s.S, y) # <<>>
                 => LET fy == Written(s.S, y)[1] IN
                    /\ fx.iv # fy.iv
                    /\ fx.content # fy.content
                    /\ fx.authTag # fy.authTag

\* A relay to two recipients, one of which was written a Message before.
C14_Witness ==
  \E s \in Steps : \E x, y \in Conns :
    /\ s.kind = "data" /\ IsChatFrame(s.m, s.c, "hi")
    /\ x # y
    /\ Written(s.S, x) # <<>> /\ Written(s.S, y) # <<>>
    /\ \E i \in DOMAIN out[x] : out[x][i].type = "message"

\* C15: when the teardown of an authenticated session runs (on '/leave',
\* close or error), every other live session that is authenticated is
\* written a Leave notice naming the departed username, and the departed
\* connection is written nothing.
C15_LeaveToEveryOther ==
  \A s \in Steps : \A c \in Conns :
    (client[c].authenticated /\ ~client[c].disconnected /\ s.S.client[c].disconnected)
    => /\ Written(s.S, c) = <<>>
       /\ \A r \in Conns \ {c} :
            (sock[r] \in {"open", "ended"} /\ client[r].authenticated
               /\ ~client[r].disconnected)
            => HasFrame(Written(s.S, r), LeaveMsg(client[c].username))

\* C16: once every byte of a stream of N serialized messages has been
\* delivered, in whatever chunks, the receiver has yielded exactly the N
\* messages, in order and character for character, and its buffer is empty;
\* before that, the frames yielded are the first messages of the stream.
C16_FramingExact ==
  /\ Len(rx.frames) <= Len(rx.sent)
  /\ \A i \in DOMAIN rx.frames : rx.frames[i] = toString(rx.sent[i])
  /\ rx.wire = <<>> => (Len(rx.frames) = Len(rx.sent) /\ rx.buffer = <<>>)

\* C17: a connection for whose public key the server could not wrap a
\* secret is terminated: no open socket, with no close pending, has a session
\* without a secret, and such a session is in no case kept for later frames.
C17_WrapFailureFatal ==
  \A c \in Conns :
    (client[c].exists /\ client[c].sharedSecret = 0)
    => (sock[c] # "open" \/ timers[c])

\* C18: a Message frame of an authenticated session that does not decrypt
\* under the session's secret (wrong key, nonce or tag) changes nothing:
\* nothing is written to any socket, the session stays authenticated and
\* registered, the socket stays as it was; and a valid Message that follows
\* it, in the same chunk or in a later one, is relayed as if the bad frame
\* had not been sent.
IsBadChatFrame(m, c) ==
  /\ m.type = "message"
  /\ client[c].authenticated
  /\ m.content # Plain("/leave")
  /\ \A P \in {"hi", "/leave", "wrong", ServerPw} : ~IsChatFrame(m, c, P)

C18_BadMessageDropped ==
  \A s \in Steps :
    (s.kind = "data" /\ IsBadChatFrame(s.m, s.c))
    => /\ s.S = St
       /\ \A P \in {"hi", "/leave"} :
            LET good == sendMessage(client[s.c].username, P, client[s.c].sharedSecret, PeerIv(1))
            IN /\ DataHandler(St, s.c, <<s.m, good>>) = DataHandler(St, s.c, <<good>>)
               /\ \A r \in Conns :
                    (InRegistry(St, r) /\ client[r].authenticated)
                    => Written(DataHandler(St, s.c, <<s.m, good>>), r) # <<>>

\* An authenticated session sends a Message without its tag while another
\* authenticated session is connected.
C18_Witness ==
  \E s \in Steps : \E r \in Conns :
    /\ s.kind = "data" /\ r # s.c
    /\ InRegistry(St, s.c) /\ client[s.c].authenticated
    /\ InRegistry(St, r) /\ client[r].authenticated
    /\ s.m = Msg("message", client[s.c].username,
                 Gcm("hi", client[s.c].sharedSecret, PeerIv(1)), PeerIv(1), NoTag)
    /\ s.S = St

\* C19: a completed line that does not parse, in whatever state its
\* connection is, changes nothing (no session, registry, socket, timer or
\* output change), and a frame that follows it in the same chunk is
\* processed exactly as if the bad line had not been there.
C19_UnparseableDropped ==
  \A s \in Steps :
    s.kind = "data"
    => /\ s.m = Unparseable => s.S = St
       /\ DataHandler(St, s.c, <<Unparseable, s.m>>) = s.S

\* An unparseable line followed, in the same chunk, by a chat Message that
\* is relayed to another session.
C19_Witness ==
  \E s \in Steps : \E r \in Conns :
    /\ s.kind = "data" /\ r # s.c
    /\ IsChatFrame(s.m, s.c, "hi")
    /\ InRegistry(St, r) /\ client[r].authenticated
    /\ Written(DataHandler(St, s.c, <<Unparseable, s.m>>), r) # <<>>

\* C20: a session whose disconnect latch is set holds no key material: its
\* secret has been overwritten.
C20_SecretZeroedOnTeardown ==
  \A c \in Conns : client[c].disconnected => client[c].sharedSecret = 0

\* C21: handling UsernameResult on its current socket, the client does not
\* exit; it clears its secret, its authenticated flag and its buffer, ends
\* that socket, drops it, and schedules the prompt for another username; the
\* prompt asks for a username, the answer becomes the username of a new
\* socket, and the first frame written on a socket is the PublicKey frame
\* carrying that username.
C21_RejectedClientReconnects ==
  /\ (~cli.exited /\ cli.socket # 0 /\ cli.socks[cli.socket] = "open")
     => \A partial \in BOOLEAN :
          LET K2 == handleData(cli, UsernameTakenMsg, partial) IN
          /\ ~K2.exited
          /\ K2.sharedSecret = 0 /\ ~K2.authenticated /\ K2.buffer = <<>>
          /\ K2.socket = 0 /\ K2.socks[cli.socket] = "ended"
          /\ K2.promptTimer
          /\ K2.sent = cli.sent
  /\ (~cli.exited /\ cli.promptTimer)
     => (onPromptTimer(cli).question = "username" /\ ~onPromptTimer(cli).exited)
  /\ \A n \in Sockets :
       /\ cli.sent[n] # <<>> => cli.sent[n][1].type = "publicKey"
       /\ (cli.socks[n] = "none" /\ cli.question = "username")
          => \A answer \in Usernames :
               /\ connect(cli, answer, n).socket = n
               /\ onConnect(connect(cli, answer, n), n).sent[n] = <<sendPublicKey(answer)>>

\* The client was rejected as "alice" on its first socket and has sent
\* PublicKey("bob") on a second one.
C21_Witness ==
  /\ ~cli.exited
  /\ cli.rejected = {1}
  /\ cli.sent[1] = <<sendPublicKey("alice")>>
  /\ cli.socket = 2
  /\ cli.sent[2] = <<sendPublicKey("bob")>>

\* C22: a client that exits without ever having opened a session socket
\* (its reachability probe failed) exits with status 1.
C22_ProbeFailureExitsOne ==
  (cli.exited /\ \A n \in Sockets : cli.socks[n] = "none") => cli.status = 1

\* C26: the close of a socket that the client ended after a username
\* rejection never terminates the client.
C26_RejectedCloseHarmless ==
  \A n \in cli.rejected :
    (~cli.exited /\ cli.socks[n] \in {"open", "ended"}) => ~handleClose(cli, n).exited

\* C27: every Message frame the server relays names as its sender the
\* username of the session on whose connection the message arrived.
C27_RelayNamesSession ==
  \A c \in {d \in Conns : sock[d] \in {"open", "ended"} /\ buffer[d] = <<>>} :
    \A m \in Frames(St, c) : \A r \in Conns :
      LET w == Written(DataHandler(St, c, <<m>>), r) IN
      \A i \in DOMAIN w : w[i].type = "message" => w[i].sender = client[c].username

\* C28: once the disconnected latch of a connection is set, no later frame
\* on that connection is relayed or broadcast, and none changes the registry
\* or any session.
C28_TerminatedAbsorbing ==
  \A c \in {d \in Conns : sock[d] \in {"open", "ended"} /\ buffer[d] = <<>>} :
    client[c].disconnected
    => \A m \in Frames(St, c) :
         LET S2 == DataHandler(St, c, <<m>>) IN
         /\ \A r \in Conns : Written(S2, r) = <<>>
         /\ S2.clients = clients
         /\ S2.client = client

\* C30: a connection holds at most one registry entry, and once a session
\* exists for a connection a further PublicKey frame on it changes nothing:
\* no secret, no username, no registry entry, nothing written.
C30_OneInsertPerConnection ==
  /\ \A c \in Conns : Cardinality({u \in Usernames : clients[u] = c}) <= 1
  /\ \A c \in {d \in Conns : sock[d] \in {"open", "ended"} /\ buffer[d] = <<>>} :
       client[c].exists
       => \A m \in Frames(St, c) :
            m.type = "publicKey" => DataHandler(St, c, <<m>>) = St

\* A registered connection is sent a PublicKey frame for another, free name
\* and stays as it was.
C30_Witness ==
  \E c \in Conns : \E n \in Usernames :
    /\ sock[c] = "open" /\ buffer[c] = <<>>
    /\ client[c].exists /\ client[c].username # n
    /\ clients[client[c].username] = c
    /\ clients[n] = 0
    /\ DataHandler(St, c, <<sendPublicKey(n)>>) = St

C29_DeferredCloseHappens ==
  \A c \in Conns : (timers[c] /\ sock[c] = "open") ~> (sock[c] # "open")

\* A rejected connection has been ended by its timer.
C29_Witness ==
  \E c \in Conns :
    /\ HasFrame(out[c], UsernameTakenMsg)
    /\ ~client[c].exists
    /\ sock[c] = "ended"
    /\ ~timers[c]

\* C31: a callback of the client writes a Message frame only on its current
\* socket, only when AuthResult "authenticated" has been handled on that
\* socket and the authenticated flag is set, and only while a session secret
\* is held; the frame is encrypted under that secret.
C31_ChatOnlyWhenAuthenticated ==
  \A s \in ClientSteps : \A n \in Sockets :
    \A i \in DOMAIN ClientWritten(s.K, n) :
      ClientWritten(s.K, n)[i].type = "message"
      => /\ s.kind = "line"
         /\ n = cli.socket
         /\ n \in cli.authedOn
         /\ cli.authenticated
         /\ cli.sharedSecret # 0
         /\ ClientWritten(s.K, n)[i].content.key = cli.sharedSecret

\* A line is entered on a second connection that is keyed but not yet
\* authenticated, after a first one was authenticated: nothing is sent.
C31_Witness ==
  /\ ~cli.exited
  /\ cli.listening
  /\ cli.socket = 2 /\ cli.socks[2] = "open"
  /\ cli.sharedSecret # 0
  /\ ~cli.authenticated
  /\ onLine(cli, "hi").sent = cli.sent

\* C32: a callback of the client writes an Auth frame only as the answer to
\* the password question, which only AuthResult "password_required" raises,
\* and only while a session secret is held; the frame carries the password
\* encrypted under that secret with its nonce and its tag; answered without
\* a secret, the question terminates the client and nothing is written.
C32_AuthOnlyEncrypted ==
  \A s \in ClientSteps :
    /\ \A n \in Sockets : \A i \in DOMAIN ClientWritten(s.K, n) :
         LET f == ClientWritten(s.K, n)[i] IN
         f.type = "auth"
         => /\ s.kind = "password"
            /\ cli.question = "password"
            /\ cli.sharedSecret # 0
            /\ n = cli.socket
            /\ f.content.kind = "gcm"
            /\ f.content.key = cli.sharedSecret
            /\ f.iv # NoIv
            /\ f.iv = f.content.iv
            /\ f.authTag = GcmTag(f.content.text, cli.sharedSecret, f.iv)
    /\ (s.K.question = "password" /\ cli.question # "password")
       => (s.kind = "data" /\ s.m = PasswordRequiredMsg)
    /\ (s.kind = "password" /\ cli.sharedSecret = 0)
       => (s.K.exited /\ s.K.sent = cli.sent)

\* The client has answered the password question with an encrypted Auth
\* frame on its current socket.
C32_Witness ==
  /\ ~cli.exited
  /\ cli.socket # 0
  /\ cli.sharedSecret # 0
  /\ \E i \in DOMAIN cli.sent[cli.socket] :
       /\ cli.sent[cli.socket][i].type = "auth"
       /\ cli.sent[cli.socket][i].content.kind = "gcm"
       /\ cli.sent[cli.socket][i].content.text = ServerPw

\* C33: whenever the client's authenticated flag is set, the client holds a
\* session secret.
C33_AuthenticatedImpliesKey ==
  (~cli.exited /\ cli.authenticated) => cli.sharedSecret # 0

\* C40: entering '/leave' in an authenticated session writes the Message
\* frame for it and ends the socket at once; when the close of that socket
\* is delivered, the client process exits with status 0.
C40_LeaveTerminates ==
  /\ (/\ ~cli.exited /\ cli.listening /\ cli.authenticated /\ cli.sharedSecret # 0
      /\ cli.socket # 0 /\ cli.socks[cli.socket] = "open")
     => LET K2 == onLine(cli, "/leave") IN
        /\ ClientWritten(K2, cli.socket)
             = <<sendMessage(cli.username, "/leave", cli.sharedSecret, ClientIv(cli))>>
        /\ K2.socks[cli.socket] = "ended"
        /\ ~K2.exited
  /\ \A n \in Sockets :
       (/\ ~cli.exited /\ cli.socks[n] = "ended" /\ n \notin cli.rejected
        /\ cli.sent[n] # <<>>
        /\ cli.sent[n][Len(cli.sent[n])].type = "message"
        /\ cli.sent[n][Len(cli.sent[n])].content.text = "/leave")
       => (handleClose(cli, n).exited /\ handleClose(cli, n).status = 0)

\* C34: every registry entry maps a username u to a session whose username
\* is u, whose session secret is installed and whose disconnected latch is
\* clear.
C34_RegistryEntriesSound ==
  \A u \in Usernames :
    clients[u] # 0
    => /\ client[clients[u]].exists
       /\ client[clients[u]].username = u
       /\ client[clients[u]].sharedSecret # 0
       /\ ~client[clients[u]].disconnected

\* Both names are registered and a session has joined.
C34_Witness ==
  /\ clients["alice"] # 0
  /\ clients["bob"] # 0
  /\ \E c \in Conns : hist[c].joins > 0

\* C35: the close handler of a registered session's socket leaves no
\* registry entry for that connection and leaves its username free, so that
\* a PublicKey frame for the name on another connection is accepted; and no
\* connection whose socket is gone holds a registry entry.
C35_CloseFreesName ==
  /\ \A u \in Usernames : clients[u] # 0 => sock[clients[u]] \in {"open", "ended"}
  /\ \A c \in {d \in Conns : sock[d] \in {"open", "ended", "errored"}} :
       LET S2 == CloseHandler(St, c) IN
       /\ \A u \in Usernames : S2.clients[u] # c
       /\ \A u \in Usernames :
            clients[u] = c
            => /\ ~isUsernameTaken(S2, u)
               /\ \A d \in Conns \ {c} :
                    (sock[d] = "open" /\ ~client[d].exists /\ buffer[d] = <<>>)
                    => DataHandler(S2, d, <<sendPublicKey(u)>>).clients[u] = d

\* "alice" is registered and authenticated on one connection while another
\* connection, open and without a session, could ask for the name.
C35_Witness ==
  \E c \in Conns : \E d \in Conns \ {c} :
    /\ clients["alice"] = c
    /\ client[c].authenticated
    /\ sock[d] = "open" /\ ~client[d].exists /\ buffer[d] = <<>>
    /\ CloseHandler(St, c).clients["alice"] = 0

\* C36: no handler run clears a session's authenticated flag, and after any
\* handler run a connection has been written AuthResult "authenticated" at
\* most once and has had at most one Join broadcast for it.
C36_AuthenticatedOnce ==
  \A s \in Steps : \A c \in Conns :
    /\ client[c].authenticated => s.S.client[c].authenticated
    /\ Cardinality({i \in DOMAIN s.S.out[c] : s.S.out[c][i] = AuthenticatedMsg}) <= 1
    /\ s.S.hist[c].joins <= 1

\* An authenticated session on a password-protected server is sent the
\* password again and nothing is written.
C36_Witness ==
  \E s \in Steps :
    /\ s.kind = "data"
    /\ serverPassword # NoPassword
    /\ client[s.c].authenticated
    /\ hist[s.c].joins = 1
    /\ IsPasswordFrame(s.m, s.c)
    /\ \A r \in Conns : Written(s.S, r) = <<>>

\* C37: a connection for which a Leave was broadcast had a Join broadcast for
\* it before, in every state and after every teardown; the teardown of a
\* session that is not authenticated broadcasts nothing and the connection
\* has had neither a Join nor a Leave.
C37_LeaveOnlyAfterJoin ==
  /\ \A c \in Conns : hist[c].leaves > 0 => hist[c].joins > 0
  /\ \A c \in {d \in Conns : sock[d] \in {"open", "ended", "errored"}} :
       \A S2 \in {CloseHandler(St, c), ErrorHandler(St, c)} :
         /\ S2.hist[c].leaves > 0 => S2.hist[c].joins > 0
         /\ (client[c].exists /\ ~client[c].authenticated)
            => /\ S2.hist[c].leaves = 0 /\ S2.hist[c].joins = 0
               /\ \A r \in Conns : Written(S2, r) = <<>>

\* A session that has not given the password is registered while another,
\* authenticated one would receive any broadcast.
C37_Witness ==
  \E c \in Conns : \E r \in Conns \ {c} :
    /\ sock[c] = "open"
    /\ client[c].exists /\ ~client[c].authenticated /\ ~client[c].disconnected
    /\ clients[client[c].username] = c
    /\ client[r].authenticated /\ InRegistry(St, r)
    /\ CloseHandler(St, c).client[c].disconnected
    /\ Written(CloseHandler(St, c), r) = <<>>

\* The Message frame the client of session c sends for the line P.
ChatOf(c, P) == sendMessage(client[c].username, P, client[c].sharedSecret, PeerIv(1))

\* The plaintexts of the Message frames in a log, in order.
RECURSIVE Relayed(_)
Relayed(log) ==
  IF log = <<>> THEN <<>>
  ELSE IF Head(log).type = "message"
       THEN <<Head(log).content.text>> \o Relayed(Tail(log))
       ELSE Relayed(Tail(log))

Recipient(r) == InRegistry(St, r) /\ client[r].sharedSecret # 0 /\ client[r].authenticated

\* C38: when the server processes the chat message P1 of session c and then
\* the chat message P2 of session d (the same or another), every recipient
\* is written P1 before P2; and when a frame that fails to decrypt arrives
\* between two messages of one session, the two are still written in order.
C38_RelayInArrivalOrder ==
  LET Senders == {x \in Conns : /\ sock[x] \in {"open", "ended"} /\ buffer[x] = <<>>
                               /\ client[x].authenticated /\ client[x].sharedSecret # 0}
      Expected(r, P1, P2) == IF Recipient(r) THEN <<P1, P2>> ELSE <<>>
  IN \A c \in Senders : \A P1 \in {"hi", "/leave"} :
       LET P2 == IF P1 = "hi" THEN "/leave" ELSE "hi"
           bad == Msg("message", client[c].username,
                      Gcm("hi", client[c].sharedSecret, PeerIv(1)), PeerIv(1), NoTag)
       IN /\ \A d \in Senders :
               LET S2 == DataHandler(DataHandler(St, c, <<ChatOf(c, P1)>>),
                                     d, <<ChatOf(d, P2)>>)
               IN \A r \in Conns : Relayed(Written(S2, r)) = Expected(r, P1, P2)
          /\ LET S3 == DataHandler(St, c, <<ChatOf(c, P1), bad, ChatOf(c, P2)>>)
             IN \A r \in Conns : Relayed(Written(S3, r)) = Expected(r, P1, P2)

\* Two authenticated sessions, each a recipient, can each send a message.
C38_Witness ==
  /\ \A x \in Conns : /\ sock[x] = "open" /\ buffer[x] = <<>>
                      /\ client[x].authenticated /\ client[x].sharedSecret # 0
                      /\ Recipient(x)
  /\ Relayed(Written(DataHandler(DataHandler(St, 1, <<ChatOf(1, "hi")>>),
                                 2, <<ChatOf(2, "/leave")>>), 1)) = <<"hi", "/leave">>

\* The types whose content is confidential, and the shape of a frame: nonce
\* and tag present for those types, absent for all others.
Confidential(f) == f.type \in {"message", "auth"}

WellFormed(f) ==
  IF Confidential(f)
  THEN f.iv # NoIv /\ f.authTag # NoTag
  ELSE f.iv = NoIv /\ f.authTag = NoTag

\* C39: every frame the server has written, and every frame the client code
\* sends, carries a nonce and a tag if its type is Message or Auth, and
\* neither otherwise.
C39_NonceTagIffConfidential ==
  \A c \in Conns :
    /\ \A i \in DOMAIN out[c] : WellFormed(out[c][i])
    /\ \A f \in ClientFrames(St, c) : WellFormed(f)

\* A connection has been written frames of both kinds, and its client can
\* send frames of both kinds.
C39_Witness ==
  \E c \in Conns :
    /\ \E i \in DOMAIN out[c] : out[c][i].type = "message"
    /\ \E i \in DOMAIN out[c] : out[c][i].type = "join"
    /\ \E i \in DOMAIN out[c] : out[c][i].type = "publicKey"
    /\ \E f \in ClientFrames(St, c) : f.type = "auth"

====
